---- MODULE Spec2Model ----
(***************************************************************************)
(* A model of whois-bun's library: the pattern grammar (parsePattern,     *)
(* validatePattern, validateExtensions, analyzePattern), the combination   *)
(* generator (shuffleArray, generateCombinations) and the Bitmap           *)
(* membership cache (hash, add, test, serialize, deserialize).             *)
(*                                                                         *)
(* A JavaScript string is modelled as a sequence of one-character strings, *)
(* so that 'l-l' is <<"l", "-", "l">> and '' is <<>>.                        *)
(***************************************************************************)
EXTENDS Integers, Sequences, FiniteSets, TLC

VARIABLES
    bitmap,      \* the Bitmap object: [size, bits]
    added,       \* history: the strings passed to add so far
    before,      \* history: <<the Bitmap before the save/load just done>>, else <<>>
    pattern,     \* the pattern string being entered
    extensions,  \* the extension list being entered
    outcome,     \* what the last library call returned
    parts,       \* generateCombinations: patternParts
    indices,     \* generateCombinations: the index array
    pc,          \* generateCombinations: position in the generator body
    shuffleI,    \* shuffleArray: loop variable i
    seed,        \* the stream Math.random() draws from in this run
    cursor,      \* generateCombinations: how many indices the for-of loop has taken
    emitted,     \* history: the strings yielded so far, in order
    emittedFrom, \* history: the index each yielded string was decoded from
    historyFile,    \* HISTORY_FILE: <<>> when it does not exist, else <<its text>>
    availableFile,  \* AVAILABLE_FILE: the domains appended, in order
    checkedDomains, \* index.ts: the Bitmap of checked domains
    reported,       \* the console.error lines of loadHistory and main
    mainPc,         \* main(): where the coroutine stands
    run,            \* which start of the program this is
    parallel,       \* parseArgs: the --parallel value
    analyses,       \* main(): the analyses of the entries to check
    analysisIdx,    \* main(): the analysis the outer for loop is at
    bases,          \* the strings generateCombinations has yet to yield, in order
    base,           \* main(): the base of the for-of loop
    extIdx,         \* main(): the extension the inner for loop is at
    domainToCheck,  \* main(): the domain about to be probed
    checkPromises,  \* main(): the set of unsettled check promises
    started,        \* how many check promises this run has created
    globalCount,    \* main(): globalCount
    availableCount, \* main(): availableCount
    skippedCount,   \* main(): skippedCount
    probed,         \* history: the domains this run has started a probe for
    loaded,         \* history: the recorded domains of the file this run loaded
    addedDomains,   \* history: the domains passed to checkedDomains.add
    savedDomains,   \* history: the added domains at the last saveHistory
    lastResult      \* history: <<the result checkDomain returned last>>, else <<>>

vars == <<bitmap, added, before, pattern, extensions, outcome, parts, indices,
          pc, shuffleI, seed, cursor, emitted, emittedFrom,
          historyFile, availableFile, checkedDomains, reported, mainPc, run,
          parallel, analyses, analysisIdx, bases, base, extIdx, domainToCheck,
          checkPromises, started, globalCount, availableCount, skippedCount,
          probed, loaded, addedDomains, savedDomains, lastResult>>

bitmapVars == <<bitmap, added, before>>
entryVars == <<pattern, extensions, outcome>>
genVars == <<parts, indices, pc, shuffleI, seed, cursor, emitted, emittedFrom>>
fileVars == <<historyFile, availableFile>>
mainVars == <<mainPc, run, parallel, analyses, analysisIdx, bases, base, extIdx,
              domainToCheck, checkPromises, started, globalCount, availableCount,
              skippedCount>>
historyVars == <<probed, loaded, addedDomains, savedDomains, lastResult>>
driverVars == <<fileVars, checkedDomains, reported, mainVars, historyVars>>

\* no library call made yet
NoOutcome == [op |-> "none"]

(***************************************************************************)
(* Characters.                                                             *)
(***************************************************************************)
LetterChars ==
    <<"a", "b", "c", "d", "e", "f", "g", "h", "i", "j", "k", "l", "m",
      "n", "o", "p", "q", "r", "s", "t", "u", "v", "w", "x", "y", "z">>

UpperChars ==
    <<"A", "B", "C", "D", "E", "F", "G", "H", "I", "J", "K", "L", "M",
      "N", "O", "P", "Q", "R", "S", "T", "U", "V", "W", "X", "Y", "Z">>

DigitChars == <<"0", "1", "2", "3", "4", "5", "6", "7", "8", "9">>

Range(s) == {s[k] : k \in 1..Len(s)}

IndexOf(s, c) == CHOOSE k \in 1..Len(s) : s[k] = c

\* c.toLowerCase() of one character
toLowerCaseChar(c) ==
    IF c \in Range(UpperChars) THEN LetterChars[IndexOf(UpperChars, c)] ELSE c

\* s.toLowerCase()
toLowerCase(s) == [k \in 1..Len(s) |-> toLowerCaseChar(s[k])]

\* the UTF-16 code unit of one character (String.prototype.charCodeAt)
charCode(c) ==
    IF c \in Range(LetterChars) THEN 96 + IndexOf(LetterChars, c)
    ELSE IF c \in Range(UpperChars) THEN 64 + IndexOf(UpperChars, c)
    ELSE IF c \in Range(DigitChars) THEN 47 + IndexOf(DigitChars, c)
    ELSE IF c = " " THEN 32
    ELSE IF c = "!" THEN 33
    ELSE IF c = "*" THEN 42
    ELSE IF c = "-" THEN 45
    ELSE IF c = "." THEN 46
    ELSE 95  \* "_"

\* 'abc'.split('')
Split(s) == [k \in 1..Len(s) |-> <<s[k]>>]

\* s.startsWith(c), s.endsWith(c) for a one-character c
startsWith(s, c) == Len(s) > 0 /\ s[1] = c
endsWith(s, c) == Len(s) > 0 /\ s[Len(s)] = c

\* s.includes(c) for a one-character c
includes(s, c) == \E k \in 1..Len(s) : s[k] = c

\* s.includes(c + d) for two characters
includes2(s, c, d) == \E k \in 1..(Len(s) - 1) : s[k] = c /\ s[k + 1] = d

(***************************************************************************)
(* class Bitmap                                                            *)
(***************************************************************************)
Pow2(k) == CASE k = 0 -> 1 [] k = 1 -> 2 [] k = 2 -> 4 [] k = 3 -> 8
             [] k = 4 -> 16 [] k = 5 -> 32 [] k = 6 -> 64 [] k = 7 -> 128

Half == 65536
Max32 == 2147483647
Min32 == (-Max32) - 1

\* the signed 32-bit integer with the given 16-bit halves (ToInt32)
Int32(hi, lo) ==
    IF hi >= 32768 THEN (hi - Half) * Half + lo ELSE hi * Half + lo

HiHalf(h) == (h \div Half) % Half
LoHalf(h) == h % Half

\* hash << 5
Shl5(h) ==
    LET lo == LoHalf(h) * 32
    IN  Int32((HiHalf(h) * 32 + lo \div Half) % Half, lo % Half)

\* hash = ((hash << 5) - hash) + code; hash = hash & hash
HashStep(h, code) ==
    LET s == Shl5(h)
        lo == (LoHalf(s) - LoHalf(h)) + code
        hi == (HiHalf(s) - HiHalf(h)) + lo \div Half
    IN  Int32(hi % Half, lo % Half)

RECURSIVE HashLoop(_, _, _)
\* the for loop of hash from character i on; hash is bound to its new value
\* before the loop goes on
HashLoop(value, i, h) ==
    IF i > Len(value) THEN h
    ELSE CHOOSE result \in {HashLoop(value, i + 1, next) :
                               next \in {HashStep(h, charCode(value[i]))}} : TRUE

\* an absolute value taken in 32-bit integers, where -2^31 stays negative
AbsModInt32(h, size) ==
    IF h >= 0 THEN h % size
    ELSE IF h = Min32 THEN 0 - (((Max32 % size) + 1) % size)
    ELSE (-h) % size

\* Math.abs(hash) % size; Math.abs(-2^31) is 2^31, a double
AbsMod(h, size) ==
    IF h >= 0 THEN h % size
    ELSE IF h = Min32 THEN ((Max32 % size) + 1) % size
    ELSE (-h) % size

hash(b, value) == AbsMod(HashLoop(value, 1, 0), b.size)

\* Math.ceil(size / 8)
CeilDiv8(size) == (size + 7) \div 8

\* new Bitmap(size)
NewBitmap(size) == [size |-> size, bits |-> [k \in 1..CeilDiv8(size) |-> 0]]

BitIsSet(byte, j) == (byte \div Pow2(j)) % 2 = 1

\* byte | (1 << j), stored in a Uint8Array element
OrBit(byte, j) == IF BitIsSet(byte, j) THEN byte ELSE (byte + Pow2(j)) % 256

\* a store that assigns the mask where add ORs it in
addAssigns(b, value) ==
    LET index == hash(b, value)
        byteIndex == index \div 8
        bitIndex == index % 8
    IN  [b EXCEPT !.bits[byteIndex + 1] = Pow2(bitIndex)]

add(b, value) ==
    LET index == hash(b, value)
        byteIndex == index \div 8
        bitIndex == index % 8
    IN  [b EXCEPT !.bits[byteIndex + 1] = OrBit(@, bitIndex)]

test(b, value) ==
    LET index == hash(b, value)
        byteIndex == index \div 8
        bitIndex == index % 8
    IN  BitIsSet(b.bits[byteIndex + 1], bitIndex)

\* a count of the bytes that hold a set bit
bitsSetCountsBytes(b) == Cardinality({i \in 1..Len(b.bits) : b.bits[i] # 0})

\* debug().bitsSet
bitsSet(b) ==
    Cardinality({<<i, j>> \in (1..Len(b.bits)) \X (0..7) : BitIsSet(b.bits[i], j)})

debug(b) == [size |-> b.size, bitsSet |-> bitsSet(b)]

(***************************************************************************)
(* Bitmap.serialize and Bitmap.deserialize: the JSON text and its parse.   *)
(***************************************************************************)
RECURSIVE ToDecimal(_)
\* the JSON text of a non-negative integer
ToDecimal(n) ==
    IF n < 10 THEN <<DigitChars[n + 1]>>
    ELSE ToDecimal(n \div 10) \o <<DigitChars[(n % 10) + 1]>>

RECURSIVE JoinNumbers(_, _)
\* the elements of a number array from position i on, separated by commas
JoinNumbers(a, i) ==
    IF i > Len(a) THEN <<>>
    ELSE IF i = Len(a) THEN ToDecimal(a[i])
    ELSE ToDecimal(a[i]) \o <<",">> \o JoinNumbers(a, i + 1)

SizeKey == <<"{", "\"", "s", "i", "z", "e", "\"", ":">>
BitsKey == <<",", "\"", "b", "i", "t", "s", "\"", ":", "[">>

\* JSON.stringify({ size: this.size, bits: Array.from(this.bits) })
serialize(b) ==
    SizeKey \o ToDecimal(b.size) \o BitsKey \o JoinNumbers(b.bits, 1) \o <<"]", "}">>

HasAt(s, i, lit) ==
    /\ i + Len(lit) - 1 <= Len(s)
    /\ \A k \in 1..Len(lit) : s[i + k - 1] = lit[k]

IsDigitAt(s, i) == i <= Len(s) /\ s[i] \in Range(DigitChars)

\* the first position from i on that holds no digit
DigitsEnd(s, i) ==
    CHOOSE j \in i..(Len(s) + 1) :
        /\ ~IsDigitAt(s, j)
        /\ \A k \in i..(j - 1) : IsDigitAt(s, k)

RECURSIVE DecimalValue(_, _, _, _)
\* the number written in s[i..j-1]
DecimalValue(s, i, j, acc) ==
    IF i >= j THEN acc
    ELSE DecimalValue(s, i + 1, j, acc * 10 + (IndexOf(DigitChars, s[i]) - 1))

\* a JSON integer at position i: one or more digits, no leading zero
NumberAt(s, i) ==
    LET j == DigitsEnd(s, i)
    IN  IF j = i \/ (j > i + 1 /\ s[i] = "0") THEN [ok |-> FALSE]
        ELSE [ok |-> TRUE, value |-> DecimalValue(s, i, j, 0), next |-> j]

RECURSIVE ElementsAt(_, _, _)
\* the elements of a JSON number array whose first element starts at i
ElementsAt(s, i, acc) ==
    LET n == NumberAt(s, i)
    IN  IF ~n.ok THEN [ok |-> FALSE]
        ELSE IF HasAt(s, n.next, <<",">>)
             THEN ElementsAt(s, n.next + 1, Append(acc, n.value))
        ELSE IF HasAt(s, n.next, <<"]">>)
             THEN [ok |-> TRUE, value |-> Append(acc, n.value), next |-> n.next + 1]
        ELSE [ok |-> FALSE]

ArrayAt(s, i) ==
    IF HasAt(s, i, <<"]">>) THEN [ok |-> TRUE, value |-> <<>>, next |-> i + 1]
    ELSE ElementsAt(s, i, <<>>)

\* JSON.parse(data), for the texts serialize writes and for such a text that
\* lacks the size member; any other text makes JSON.parse throw
JSONparse(data) ==
    IF HasAt(data, 1, <<"{">> \o Tail(BitsKey))
    THEN LET a == ArrayAt(data, Len(BitsKey) + 1)
         IN  IF ~a.ok \/ ~HasAt(data, a.next, <<"}">>) \/ a.next # Len(data)
             THEN [ok |-> FALSE]
             ELSE [ok |-> TRUE, hasSize |-> FALSE, bits |-> a.value]
    ELSE IF ~HasAt(data, 1, SizeKey) THEN [ok |-> FALSE]
    ELSE LET n == NumberAt(data, Len(SizeKey) + 1)
         IN  IF ~n.ok \/ ~HasAt(data, n.next, BitsKey) THEN [ok |-> FALSE]
             ELSE LET a == ArrayAt(data, n.next + Len(BitsKey))
                  IN  IF ~a.ok \/ ~HasAt(data, a.next, <<"}">>) \/ a.next # Len(data)
                      THEN [ok |-> FALSE]
                      ELSE [ok |-> TRUE, hasSize |-> TRUE, size |-> n.value,
                            bits |-> a.value]

\* new Uint8Array(array)
Uint8Array(a) == [k \in 1..Len(a) |-> a[k] % 256]

\* constructor(size: number = 1_000_000)
DefaultSize == 1000000

\* new Bitmap(parsed.size): an undefined argument takes the default
NewBitmapOf(parsed) ==
    IF parsed.hasSize THEN NewBitmap(parsed.size) ELSE NewBitmap(DefaultSize)

\* Bitmap.deserialize(data); a throw of JSON.parse is the value Thrown
Thrown == [thrown |-> TRUE]

\* a deserialize that constructs the Bitmap and never restores its bits
deserializeSizeOnly(data) ==
    LET parsed == JSONparse(data)
    IN  IF ~parsed.ok THEN Thrown ELSE NewBitmapOf(parsed)

deserialize(data) ==
    LET parsed == JSONparse(data)
    IN  IF ~parsed.ok THEN Thrown
        ELSE [NewBitmapOf(parsed) EXCEPT !.bits = Uint8Array(parsed.bits)]

(***************************************************************************)
(* The Bitmap under a caller that adds strings and saves and reloads it.   *)
(***************************************************************************)
MaxCapacity == 10
MaxValueLen == 2
MaxAdds == 3

Seqs(S, n) == UNION {[1..k -> S] : k \in 0..n}

\* 'test.com', 'other.com', 'example.com' of bitmap.test.ts
TestValues ==
    { <<"t", "e", "s", "t", ".", "c", "o", "m">>,
      <<"o", "t", "h", "e", "r", ".", "c", "o", "m">>,
      <<"e", "x", "a", "m", "p", "l", "e", ".", "c", "o", "m">> }

ValueChars == {"a", "."}

Values == Seqs(ValueChars, MaxValueLen) \cup TestValues

Capacities == 1..MaxCapacity

EntryIdle ==
    /\ pattern = <<>>
    /\ extensions = <<>>
    /\ outcome = NoOutcome

GenIdle ==
    /\ parts = <<>>
    /\ indices = <<>>
    /\ pc = "idle"
    /\ shuffleI = 0
    /\ seed = 0
    /\ cursor = 0
    /\ emitted = <<>>
    /\ emittedFrom = <<>>

BitmapIdle ==
    /\ bitmap = NewBitmap(0)
    /\ added = {}
    /\ before = <<>>

\* the variables of main() before the program has started
MainIdle ==
    /\ mainPc = "start"
    /\ analyses = <<>>
    /\ analysisIdx = 0
    /\ bases = <<>>
    /\ base = <<>>
    /\ extIdx = 0
    /\ domainToCheck = <<>>
    /\ checkPromises = {}
    /\ started = 0
    /\ globalCount = 0
    /\ availableCount = 0
    /\ skippedCount = 0

DriverIdle ==
    /\ historyFile = <<>>
    /\ availableFile = <<>>
    /\ checkedDomains = NewBitmap(0)
    /\ reported = <<>>
    /\ run = 0
    /\ parallel = 0
    /\ MainIdle
    /\ probed = {}
    /\ loaded = {}
    /\ addedDomains = {}
    /\ savedDomains = {}
    /\ lastResult = <<>>

InitBitmap ==
    /\ \E size \in Capacities : bitmap = NewBitmap(size)
    /\ added = {}
    /\ before = <<>>
    /\ EntryIdle
    /\ GenIdle
    /\ DriverIdle

\* checkedDomains.add(value)
Add(value) ==
    /\ value \in added \/ Cardinality(added) < MaxAdds
    /\ bitmap' = add(bitmap, value)
    /\ added' = added \cup {value}
    /\ before' = <<>>
    /\ UNCHANGED <<entryVars, genVars, driverVars>>

\* Bitmap.deserialize(checkedDomains.serialize()) replaces the cache
SaveLoad ==
    /\ before = <<>>
    /\ bitmap' = deserialize(serialize(bitmap))
    /\ before' = <<bitmap>>
    /\ UNCHANGED <<added, entryVars, genVars, driverVars>>

NextBitmap ==
    \/ \E value \in Values : Add(value)
    \/ SaveLoad

SpecBitmap == InitBitmap /\ [][NextBitmap]_vars

(***************************************************************************)
(* Properties of the Bitmap.                                               *)
(***************************************************************************)
\* C1: every string that was added tests true, after any further adds (also
\* of colliding strings, also with capacity 1) and after a save and reload.
C1_NoFalseNegatives == \A s \in added : test(bitmap, s)

\* two added strings collide in a reloaded Bitmap, and both still test true
C1_Witness ==
    /\ before # <<>>
    /\ \E s, t \in added : s # t /\ hash(bitmap, s) = hash(bitmap, t)
    /\ \E s, t \in added : hash(bitmap, s) # hash(bitmap, t)

\* C2: the Bitmap read back from its own serialization has the same capacity
\* and answers test the same way for every string, added or not.
C2_RoundTrip ==
    before # <<>> =>
        /\ debug(bitmap).size = debug(before[1]).size
        /\ \A x \in Values : test(bitmap, x) = test(before[1], x)

\* a reloaded Bitmap with an added string and a string that tests false
C2_Witness ==
    /\ before # <<>>
    /\ added # {}
    /\ \E x \in Values : ~test(bitmap, x)
    /\ Len(serialize(bitmap)) > Len(SizeKey) + Len(BitsKey) + 5

\* the bit positions the strings added so far hash to
C17_Hashes == {hash(bitmap, v) : v \in added}

\* C17: in a Bitmap of capacity > 0 the set bits are exactly the hashes of
\* the strings added, the byte array has ceil(capacity / 8) bytes, and
\* debug().bitsSet is the number of distinct hashes (0 when nothing was
\* added, k for k strings with distinct hashes); no step changes the
\* capacity, and adding a string again changes nothing.
C17_ExactBits ==
    /\ [](LET hashes == C17_Hashes
          IN  /\ {i \in 0..(8 * Len(bitmap.bits) - 1) :
                      BitIsSet(bitmap.bits[(i \div 8) + 1], i % 8)} = hashes
              /\ debug(bitmap).bitsSet = Cardinality(hashes)
              /\ 8 * Len(bitmap.bits) >= bitmap.size
              /\ 8 * (Len(bitmap.bits) - 1) < bitmap.size
              /\ debug(bitmap).size = bitmap.size)
    /\ [][/\ bitmap'.size = bitmap.size
          /\ (added' = added /\ before' = <<>>) => bitmap' = bitmap]_vars

\* the last step added a string and three are in, two of them at the same bit
\* and two to bits of the same byte
C17_Witness ==
    /\ before = <<>>
    /\ Cardinality(added) = 3
    /\ Cardinality(C17_Hashes) = 2
    /\ debug(bitmap).bitsSet = 2
    /\ \E i \in 1..Len(bitmap.bits) : bitmap.bits[i] \notin {0, 1, 2, 4, 8, 16, 32, 64, 128}
    /\ bitmap.size > 8

(***************************************************************************)
(* Bitmap.hash called on its own, on Bitmaps with and without a set bit.   *)
(***************************************************************************)
MaxHashLen == 3

HashChars == {"a", "z", "."}

\* a string whose rolling hash is exactly -2^31
MinHashValue == <<"x", "f", "j", "f", "x", "t", "f">>

HashValues == Seqs(HashChars, MaxHashLen) \cup TestValues \cup {MinHashValue}

InitHash ==
    /\ \E size \in Capacities : bitmap = NewBitmap(size)
    /\ added = {}
    /\ before = <<>>
    /\ EntryIdle
    /\ GenIdle
    /\ DriverIdle

\* this.hash(value), as add and test call it
CallHash(value) ==
    /\ outcome' = [op |-> "hash", value |-> value, result |-> hash(bitmap, value)]
    /\ UNCHANGED <<bitmapVars, pattern, extensions, genVars, driverVars>>

\* an add between two calls of hash
AddBetween(value) ==
    /\ added = {}
    /\ bitmap' = add(bitmap, value)
    /\ added' = {value}
    /\ UNCHANGED <<before, entryVars, genVars, driverVars>>

NextHash ==
    \/ \E value \in HashValues : CallHash(value)
    \/ \E value \in TestValues : AddBetween(value)

SpecHash == InitHash /\ [][NextHash]_vars

\* h * 31 + code, wrapped to a signed 32-bit integer, in 16-bit limbs
C18_Wrap31(h, code) ==
    LET lo == (h % Half) * 31 + code
        hi == (((h - (h % Half)) \div Half) % Half) * 31 + (lo \div Half)
        top == hi % Half
    IN  IF top >= Half \div 2 THEN (top - Half) * Half + (lo % Half)
        ELSE top * Half + (lo % Half)

RECURSIVE C18_Rolling(_, _)
\* the rolling hash of the first n characters of value
C18_Rolling(value, n) ==
    IF n = 0 THEN 0
    ELSE C18_Wrap31(C18_Rolling(value, n - 1), charCode(value[n]))

\* abs(h) mod capacity, with abs(-2^31) = 2^31 = 2 * 2^30
C18_AbsModCapacity(h, capacity) ==
    IF h = Min32 THEN (2 * (((Max32 \div 2) + 1) % capacity)) % capacity
    ELSE IF h < 0 THEN (0 - h) % capacity
    ELSE h % capacity

\* C18: for every string and every capacity > 0, hash(value) is
\* abs(h) mod capacity, h being the rolling hash h * 31 + charCode wrapped
\* to a signed 32-bit integer after each character from 0; it lies in
\* 0..capacity-1, also when h is -2^31, and it is the hash a Bitmap of the
\* same capacity with other bits gives.
C18_HashIsAbsMod ==
    outcome.op = "hash" =>
        LET h == C18_Rolling(outcome.value, Len(outcome.value))
        IN  /\ outcome.result = C18_AbsModCapacity(h, bitmap.size)
            /\ outcome.result \in 0..(bitmap.size - 1)
            /\ outcome.result = hash(bitmap, outcome.value)
            /\ outcome.result = hash(NewBitmap(bitmap.size), outcome.value)

\* hash was called on a string whose rolling hash is -2^31, in a Bitmap of
\* capacity 10 that got a bit set after the call
C18_Witness ==
    /\ outcome.op = "hash"
    /\ C18_Rolling(outcome.value, Len(outcome.value)) = Min32
    /\ bitmap.size = 10
    /\ outcome.result = 8
    /\ added # {}

\* hash was called on a string whose rolling hash wrapped to a negative
\* value other than -2^31
C18_WitnessNegative ==
    /\ outcome.op = "hash"
    /\ C18_Rolling(outcome.value, Len(outcome.value)) < 0
    /\ C18_Rolling(outcome.value, Len(outcome.value)) # Min32
    /\ outcome.result # 0

(***************************************************************************)
(* The pattern grammar: parsePattern, validatePattern, validateExtensions, *)
(* analyzePattern.                                                         *)
(***************************************************************************)
CONSONANTS ==
    Split(<<"b", "c", "d", "f", "g", "h", "j", "k", "l", "m",
            "n", "p", "q", "r", "s", "t", "v", "w", "x", "z">>)
VOWELS == Split(<<"a", "e", "i", "o", "u">>)
NUMBERS == Split(DigitChars)
LETTERS == Split(LetterChars)
\* [...LETTERS, ...'0123456789', '-'].filter(char => char)
ALL_CHARS ==
    SelectSeq(LETTERS \o Split(DigitChars) \o << <<"-">> >>, LAMBDA char : char # <<>>)

\* the part pushed for 'c', 'v', 'n' or 'l'
SpecialPart(lowerChar) ==
    CASE lowerChar = "c" -> [type |-> "c", possibilities |-> CONSONANTS]
      [] lowerChar = "v" -> [type |-> "v", possibilities |-> VOWELS]
      [] lowerChar = "n" -> [type |-> "n", possibilities |-> NUMBERS]
      [] lowerChar = "l" -> [type |-> "l", possibilities |-> LETTERS]

WildcardPart == [type |-> "wildcard", possibilities |-> ALL_CHARS, isWildcard |-> TRUE]

HyphenPart(char) == [type |-> char, possibilities |-> << <<char>> >>]

\* a flush that stores the literal as typed, not lower-cased
processLiteralKeepsCase(ps, currentLiteral) ==
    IF currentLiteral # <<>>
    THEN Append(ps, [type |-> "literal", value |-> currentLiteral,
                     possibilities |-> <<currentLiteral>>])
    ELSE ps

\* processLiteral(): the parts after flushing the pending literal
processLiteral(ps, currentLiteral) ==
    IF currentLiteral # <<>>
    THEN Append(ps, [type |-> "literal", value |-> currentLiteral,
                     possibilities |-> <<toLowerCase(currentLiteral)>>])
    ELSE ps

RECURSIVE ParseLoop(_, _, _, _)
\* the for loop of parsePattern from position i on, and the final flush
ParseLoop(pat, i, ps, currentLiteral) ==
    IF i > Len(pat) THEN processLiteral(ps, currentLiteral)
    ELSE LET char == pat[i]
             lowerChar == toLowerCaseChar(char)
         IN  IF lowerChar \in {"c", "v", "n", "l"}
             THEN ParseLoop(pat, i + 1,
                      Append(processLiteral(ps, currentLiteral), SpecialPart(lowerChar)), <<>>)
             ELSE IF char = "_"
             THEN ParseLoop(pat, i + 1,
                      Append(processLiteral(ps, currentLiteral), WildcardPart), <<>>)
             ELSE IF char = "-"
             THEN ParseLoop(pat, i + 1,
                      Append(processLiteral(ps, currentLiteral), HyphenPart(char)), <<>>)
             ELSE ParseLoop(pat, i + 1, ps, Append(currentLiteral, char))

parsePattern(pat) == ParseLoop(pat, 1, <<>>, <<>>)

\* A validator returns null or a message; null is <<>>, a message is <<text>>
\* or, for a template with an argument, <<text, argument>>.
Null == <<>>

\* new Set([...'abcdefghijklmnopqrstuvwxyzABCDEFGHIJKLMNOPQRSTUVWXYZ0123456789-_cvnl'])
validChars ==
    Range(LetterChars) \cup Range(UpperChars) \cup Range(DigitChars)
        \cup {"-", "_", "c", "v", "n", "l"}

\* the first character of the pattern that validChars lacks
FirstInvalidChar(pat) ==
    pat[CHOOSE k \in 1..Len(pat) :
            /\ pat[k] \notin validChars
            /\ \A j \in 1..(k - 1) : pat[j] \in validChars]

\* a validator that looks at the hyphens before it looks for a space
validatePatternHyphensFirst(pat) ==
    IF pat = <<>> THEN <<"Pattern cannot be empty">>
    ELSE IF startsWith(pat, "-") THEN <<"Pattern cannot start with hyphen">>
    ELSE IF endsWith(pat, "-") THEN <<"Pattern cannot end with hyphen">>
    ELSE IF includes(pat, " ") THEN <<"Pattern cannot contain spaces">>
    ELSE IF includes2(pat, "-", "-") THEN <<"Pattern cannot contain consecutive hyphens">>
    ELSE IF \E k \in 1..Len(pat) : pat[k] \notin validChars
         THEN <<"Invalid character in pattern: ", FirstInvalidChar(pat)>>
    ELSE Null

validatePattern(pat) ==
    IF pat = <<>> THEN <<"Pattern cannot be empty">>
    ELSE IF includes(pat, " ") THEN <<"Pattern cannot contain spaces">>
    ELSE IF startsWith(pat, "-") THEN <<"Pattern cannot start with hyphen">>
    ELSE IF endsWith(pat, "-") THEN <<"Pattern cannot end with hyphen">>
    ELSE IF includes2(pat, "-", "-") THEN <<"Pattern cannot contain consecutive hyphens">>
    ELSE IF \E k \in 1..Len(pat) : pat[k] \notin validChars
         THEN <<"Invalid character in pattern: ", FirstInvalidChar(pat)>>
    ELSE Null

\* /^[.a-z0-9]+$/.test(ext)
DotLowerDigitRegex(ext) ==
    /\ Len(ext) >= 1
    /\ \A k \in 1..Len(ext) :
           ext[k] \in {"."} \cup Range(LetterChars) \cup Range(DigitChars)

\* the body of the for loop of validateExtensions: the message it returns, or
\* null when it falls through to the next extension
ExtensionCheck(ext) ==
    IF ~startsWith(ext, ".") THEN <<"Extension must start with dot: ", ext>>
    ELSE IF Len(ext) < 2 THEN <<"Extension too short: ", ext>>
    ELSE IF ~DotLowerDigitRegex(ext) THEN <<"Invalid extension format: ", ext>>
    ELSE Null

RECURSIVE ExtensionsLoop(_, _)
ExtensionsLoop(exts, i) ==
    IF i > Len(exts) THEN Null
    ELSE IF ExtensionCheck(exts[i]) # Null THEN ExtensionCheck(exts[i])
    ELSE ExtensionsLoop(exts, i + 1)

validateExtensions(exts) ==
    IF Len(exts) = 0 THEN <<"At least one extension is required">>
    ELSE ExtensionsLoop(exts, 1)

RECURSIVE CombinationsReduce(_, _, _)
\* parts.reduce((acc, part) => part.possibilities ? acc * part.possibilities.length : acc, 1)
CombinationsReduce(ps, j, acc) ==
    IF j > Len(ps) THEN acc
    ELSE IF "possibilities" \notin DOMAIN ps[j] THEN CombinationsReduce(ps, j + 1, acc)
    ELSE CombinationsReduce(ps, j + 1, acc * Len(ps[j].possibilities))

\* an analysis that validates the extensions before the pattern
analyzePatternExtensionsFirst(entry) ==
    LET validationResult == validatePattern(entry.pattern)
        extensionResult == validateExtensions(entry.extensions)
        ps == parsePattern(entry.pattern)
        combinations == CombinationsReduce(ps, 1, 1)
    IN  IF extensionResult # Null
        THEN [typeof |-> "string", value |-> extensionResult]
        ELSE IF validationResult # Null
        THEN [typeof |-> "string", value |-> validationResult]
        ELSE [typeof |-> "object",
              pattern |-> entry.pattern,
              extensions |-> entry.extensions,
              combinations |-> combinations,
              totalDomains |-> combinations * Len(entry.extensions),
              parts |-> ps]

\* analyzePattern(entry): a string (typeof 'string') or the analysis object
analyzePattern(entry) ==
    LET validationResult == validatePattern(entry.pattern)
        extensionResult == validateExtensions(entry.extensions)
        ps == parsePattern(entry.pattern)
        combinations == CombinationsReduce(ps, 1, 1)
    IN  IF validationResult # Null
        THEN [typeof |-> "string", value |-> validationResult]
        ELSE IF extensionResult # Null
        THEN [typeof |-> "string", value |-> extensionResult]
        ELSE [typeof |-> "object",
              pattern |-> entry.pattern,
              extensions |-> entry.extensions,
              combinations |-> combinations,
              totalDomains |-> combinations * Len(entry.extensions),
              parts |-> ps]

(***************************************************************************)
(* Callers of the grammar: a pattern and an extension list are entered     *)
(* and the library functions are called on them.                           *)
(***************************************************************************)
MaxPatLen == 3
MaxExts == 2
MaxExtLen == 2
MaxAnalyzeLen == 2
MaxAnalyzeExts == 3

\* the characters a pattern is typed from: the four tokens, two of them in
\* upper case too, wildcard, hyphen, literal letters, a digit, a space and a
\* character outside the valid set
PatChars == {"c", "v", "n", "l", "C", "L", "_", "-", "a", "T", "1", " ", "!"}

\* patterns of the test suite
TestPatterns ==
    { <<"T", "E", "S", "T">>,
      <<"t", "e", "s", "t", "_">>,
      <<"c", "c", "v", "v", "n", "l", "l">>,
      <<"t", "e", "s", "t", "-", "l", "_", "n">>,
      <<"-", "t", "e", "s", "t">>,
      <<"t", "e", "s", "t", "-">>,
      <<"t", "e", "-", "-", "s", "t">>,
      <<"t", "e", "s", "t", "!">>,
      <<"l", "l", "-", "l", "l">> }

ExtChars == {".", "a", "A", "1"}

DotCom == <<".", "c", "o", "m">>
DotNet == <<".", "n", "e", "t">>
DotOrg == <<".", "o", "r", "g">>

\* extension lists of the test suite
TestExtensions ==
    { <<DotCom>>, << <<"c", "o", "m">> >>, << <<".">> >>, << <<".", "C", "O", "M">> >>,
      <<DotCom, DotNet, DotOrg>>, <<DotCom, <<"n", "e", "t">> >> }

AnalyzeChars == {"l", "c", "_", "-", "a", " "}
ExtPool == {DotCom, DotNet, DotOrg, <<"c", "o", "m">>}

InitEntry ==
    /\ EntryIdle
    /\ BitmapIdle
    /\ GenIdle
    /\ DriverIdle

\* one more character of the pattern
TypeChar(c, maxLen) ==
    /\ Len(pattern) < maxLen
    /\ pattern' = Append(pattern, c)
    /\ outcome' = NoOutcome
    /\ UNCHANGED <<extensions, bitmapVars, genVars, driverVars>>

EnterPattern(p) ==
    /\ pattern' = p
    /\ outcome' = NoOutcome
    /\ UNCHANGED <<extensions, bitmapVars, genVars, driverVars>>

\* one more extension in the list
PushExt(ext, maxExts) ==
    /\ Len(extensions) < maxExts
    /\ extensions' = Append(extensions, ext)
    /\ outcome' = NoOutcome
    /\ UNCHANGED <<pattern, bitmapVars, genVars, driverVars>>

\* one more character of the last extension
TypeExtChar(c) ==
    /\ Len(extensions) > 0
    /\ Len(extensions[Len(extensions)]) < MaxExtLen
    /\ extensions' = [extensions EXCEPT ![Len(extensions)] = Append(@, c)]
    /\ outcome' = NoOutcome
    /\ UNCHANGED <<pattern, bitmapVars, genVars, driverVars>>

EnterExtensions(exts) ==
    /\ extensions' = exts
    /\ outcome' = NoOutcome
    /\ UNCHANGED <<pattern, bitmapVars, genVars, driverVars>>

CallValidatePattern ==
    /\ outcome' = [op |-> "validatePattern", result |-> validatePattern(pattern)]
    /\ UNCHANGED <<pattern, extensions, bitmapVars, genVars, driverVars>>

CallParsePattern ==
    /\ outcome' = [op |-> "parsePattern", result |-> parsePattern(pattern)]
    /\ UNCHANGED <<pattern, extensions, bitmapVars, genVars, driverVars>>

CallValidateExtensions ==
    /\ outcome' = [op |-> "validateExtensions", result |-> validateExtensions(extensions)]
    /\ UNCHANGED <<pattern, extensions, bitmapVars, genVars, driverVars>>

CallAnalyzePattern ==
    /\ outcome' = [op |-> "analyzePattern",
                   result |-> analyzePattern([pattern |-> pattern, extensions |-> extensions])]
    /\ UNCHANGED <<pattern, extensions, bitmapVars, genVars, driverVars>>

NextPattern ==
    \/ \E c \in PatChars : TypeChar(c, MaxPatLen)
    \/ \E p \in TestPatterns : EnterPattern(p)
    \/ CallValidatePattern
    \/ CallParsePattern

SpecPattern == InitEntry /\ [][NextPattern]_vars

NextExtensions ==
    \/ PushExt(<<>>, MaxExts)
    \/ \E c \in ExtChars : TypeExtChar(c)
    \/ \E exts \in TestExtensions : EnterExtensions(exts)
    \/ CallValidateExtensions

SpecExtensions == InitEntry /\ [][NextExtensions]_vars

NextAnalyze ==
    \/ \E c \in AnalyzeChars : extensions = <<>> /\ TypeChar(c, MaxAnalyzeLen)
    \/ \E ext \in ExtPool : PushExt(ext, MaxAnalyzeExts)
    \/ CallAnalyzePattern

SpecAnalyze == InitEntry /\ [][NextAnalyze]_vars

(***************************************************************************)
(* Properties of the grammar.                                              *)
(***************************************************************************)
SetMin(S) == CHOOSE x \in S : \A y \in S : x <= y

\* the characters [a-zA-Z0-9_-], by code unit
C7_Allowed(c) ==
    \/ charCode(c) \in 97..122
    \/ charCode(c) \in 65..90
    \/ charCode(c) \in 48..57
    \/ c = "_"
    \/ c = "-"

\* the numbers of the checks, in the order of the claim, that pat fails
C7_Failing(pat) ==
    {n \in 1..6 :
        \/ n = 1 /\ Len(pat) = 0
        \/ n = 2 /\ " " \in Range(pat)
        \/ n = 3 /\ Len(pat) > 0 /\ Head(pat) = "-"
        \/ n = 4 /\ Len(pat) > 0 /\ pat[Len(pat)] = "-"
        \/ n = 5 /\ \E k \in 1..(Len(pat) - 1) : SubSeq(pat, k, k + 1) = <<"-", "-">>
        \/ n = 6 /\ \E c \in Range(pat) : ~C7_Allowed(c)}

C7_Message(n) ==
    CASE n = 1 -> "Pattern cannot be empty"
      [] n = 2 -> "Pattern cannot contain spaces"
      [] n = 3 -> "Pattern cannot start with hyphen"
      [] n = 4 -> "Pattern cannot end with hyphen"
      [] n = 5 -> "Pattern cannot contain consecutive hyphens"
      [] n = 6 -> "Invalid character in pattern: "

\* C7: validatePattern returns the error of the first failing check in the
\* order empty, space, leading hyphen, trailing hyphen, double hyphen,
\* invalid character, and null exactly when no check fails.
C7_ValidateOrder ==
    outcome.op = "validatePattern" =>
        IF C7_Failing(pattern) = {} THEN outcome.result = Null
        ELSE /\ outcome.result # Null
             /\ outcome.result[1] = C7_Message(SetMin(C7_Failing(pattern)))

\* a pattern that starts with a hyphen and holds a space reports the space
C7_Witness ==
    /\ outcome.op = "validatePattern"
    /\ {2, 3} \subseteq C7_Failing(pattern)
    /\ outcome.result = <<"Pattern cannot contain spaces">>

\* ext matches ^\.[a-z0-9]+$
C8_DotThenLowerDigits(ext) ==
    /\ Len(ext) >= 2
    /\ ext[1] = "."
    /\ \A k \in 2..Len(ext) : charCode(ext[k]) \in (97..122) \cup (48..57)

\* C8: validateExtensions returns no error exactly when the list is nonempty
\* and every element is a dot followed by one or more lower-case letters or
\* digits.
C8_ExtensionsAccepted ==
    outcome.op = "validateExtensions" =>
        (outcome.result = Null <=>
            /\ Len(extensions) > 0
            /\ \A i \in 1..Len(extensions) : C8_DotThenLowerDigits(extensions[i]))

RECURSIVE C9_Product(_)
\* the product of the numbers of distinct elements of the parts' alphabets
C9_Product(ps) ==
    IF ps = <<>> THEN 1
    ELSE Cardinality(Range(ps[Len(ps)].possibilities)) * C9_Product(SubSeq(ps, 1, Len(ps) - 1))

C10_IsToken(c) == c \in {"c", "C", "v", "V", "n", "N", "l", "L", "_", "-"}

\* the positions where a segment starts: every token, and every other
\* character that opens the pattern or follows a token
C10_Starts(pat) ==
    {k \in 1..Len(pat) :
        \/ C10_IsToken(pat[k])
        \/ k = 1
        \/ C10_IsToken(pat[k - 1])}

\* the last position of the segment that starts at k
C10_End(pat, k) ==
    IF \E m \in C10_Starts(pat) : m > k
    THEN SetMin({m \in C10_Starts(pat) : m > k}) - 1
    ELSE Len(pat)

\* the j-th smallest start
C10_Start(pat, j) ==
    CHOOSE k \in C10_Starts(pat) : Cardinality({m \in C10_Starts(pat) : m <= k}) = j

\* the type and alphabet size of the segment for a token, with the claimed
\* number of consonants
C10_TokenType(c) ==
    CASE c \in {"c", "C"} -> "c"
      [] c \in {"v", "V"} -> "v"
      [] c \in {"n", "N"} -> "n"
      [] c \in {"l", "L"} -> "l"
      [] c = "_" -> "wildcard"
      [] c = "-" -> "-"

C10_TokenSize(c, consonants) ==
    CASE c \in {"c", "C"} -> consonants
      [] c \in {"v", "V"} -> 5
      [] c \in {"n", "N"} -> 10
      [] c \in {"l", "L"} -> 26
      [] c = "_" -> 37
      [] c = "-" -> 1

C10_Segments(pat, ps, consonants) ==
    /\ Len(ps) = Cardinality(C10_Starts(pat))
    /\ \A j \in 1..Len(ps) :
          LET k == C10_Start(pat, j)
          IN  /\ Len(ps[j].possibilities) >= 1
              /\ IF C10_IsToken(pat[k])
                 THEN /\ ps[j].type = C10_TokenType(pat[k])
                      /\ Len(ps[j].possibilities) = C10_TokenSize(pat[k], consonants)
                      /\ \A e \in Range(ps[j].possibilities) : Len(e) = 1
                 ELSE /\ ps[j].type = "literal"
                      /\ ps[j].possibilities = <<toLowerCase(SubSeq(pat, k, C10_End(pat, k)))>>
                      /\ ps[j].possibilities[1] # <<>>

C11_UpperPositions(s) == {k \in 1..Len(s) : s[k] \in Range(UpperChars)}

\* C11: parsePattern keeps every uppercase letter of the pattern in a literal
\* segment, C, V, N and L included, and makes a consonant, vowel, number or
\* letter segment for the lowercase letters c, v, n and l only.
C11_UppercaseIsLiteral ==
    outcome.op = "parsePattern" =>
        LET ps == outcome.result
            literals == {j \in 1..Len(ps) : ps[j].type = "literal"}
            tokens == {j \in 1..Len(ps) : ps[j].type \in {"c", "v", "n", "l"}}
        IN  /\ Cardinality(tokens)
                 = Cardinality({k \in 1..Len(pattern) : pattern[k] \in {"c", "v", "n", "l"}})
            /\ Cardinality({<<j, k>> \in literals \X (1..Len(pattern)) :
                                k \in C11_UpperPositions(ps[j].value)})
                 = Cardinality(C11_UpperPositions(pattern))

(***************************************************************************)
(* shuffleArray and generateCombinations.                                  *)
(***************************************************************************)
RECURSIVE TotalReduce(_, _, _)
\* patternParts.reduce((acc, part) => acc * (part.possibilities?.length || 1), 1)
TotalReduce(ps, j, acc) ==
    IF j > Len(ps) THEN acc
    ELSE LET n == IF "possibilities" \in DOMAIN ps[j] THEN Len(ps[j].possibilities) ELSE 0
         IN  TotalReduce(ps, j + 1, acc * (IF n = 0 THEN 1 ELSE n))

totalCombinations(ps) == TotalReduce(ps, 1, 1)

\* Array.from({ length: totalCombinations }, (_, i) => i)
ArrayFromLength(n) == [k \in 1..n |-> k - 1]

\* an exchange that copies array[j] to array[i] and loses array[i]
SwapOverwrites(array, i, j) == [array EXCEPT ![i + 1] = array[j + 1]]

\* [array[i], array[j]] = [array[j], array[i]]
Swap(array, i, j) == [array EXCEPT ![i + 1] = array[j + 1], ![j + 1] = array[i + 1]]

\* /[0-9]/.test(s): s holds a digit somewhere
HasDigit(s) == \E k \in 1..Len(s) : s[k] \in Range(DigitChars)

\* /^[0-9]/.test(s): s starts with a digit
StartsWithDigit(s) == Len(s) > 0 /\ s[1] \in Range(DigitChars)

RECURSIVE DecodeStays(_, _, _, _, _)
\* a decode that never divides current by the alphabet size
DecodeStays(ps, j, current, result, lastChar) ==
    IF j > Len(ps) THEN [isValid |-> TRUE, result |-> result]
    ELSE LET possibilities == ps[j].possibilities
             index == current % Len(possibilities)
             char == possibilities[index + 1]
         IN  IF Len(result) = 0 /\ (char = <<"-">> \/ HasDigit(char))
             THEN [isValid |-> FALSE, result |-> result]
             ELSE IF char = <<"-">> /\ lastChar = <<"-">>
             THEN [isValid |-> FALSE, result |-> result]
             ELSE DecodeStays(ps, j + 1, current, result \o char, char)

RECURSIVE DecodeLoop(_, _, _, _, _)
\* the inner for loop of generateCombinations from part j on
DecodeLoop(ps, j, current, result, lastChar) ==
    IF j > Len(ps) THEN [isValid |-> TRUE, result |-> result]
    ELSE LET possibilities == ps[j].possibilities
             index == current % Len(possibilities)
             char == possibilities[index + 1]
         IN  IF Len(result) = 0 /\ (char = <<"-">> \/ HasDigit(char))
             THEN [isValid |-> FALSE, result |-> result]
             ELSE IF char = <<"-">> /\ lastChar = <<"-">>
             THEN [isValid |-> FALSE, result |-> result]
             ELSE DecodeLoop(ps, j + 1, current \div Len(possibilities),
                             result \o char, char)

\* a skip test that forgets the trailing hyphen
SkippedKeepsTrailingHyphen(d) == ~d.isValid \/ StartsWithDigit(d.result)

\* if (!isValid || result.endsWith('-') || /^[0-9]/.test(result)) continue
Skipped(d) == ~d.isValid \/ endsWith(d.result, "-") \/ StartsWithDigit(d.result)

RECURSIVE NextYield(_, _, _)
\* the for-of loop from the k-th index on, up to the next yield or the end
NextYield(ps, array, k) ==
    IF k > Len(array) THEN [done |-> TRUE, at |-> Len(array)]
    ELSE LET d == DecodeLoop(ps, 1, array[k], <<>>, <<>>)
         IN  IF Skipped(d) THEN NextYield(ps, array, k + 1)
             ELSE [done |-> FALSE, at |-> k, value |-> d.result]

(***************************************************************************)
(* A caller that starts one generator on a parsed pattern and drains it.   *)
(* Math.random() is an input: for an array of up to MaxFullShuffle         *)
(* elements every j = floor(random * (i + 1)) in 0..i is drawn; for a      *)
(* longer array the draws come from one of NumStreams fixed streams.       *)
(***************************************************************************)
MaxGenLen == 3
MaxCombos == 40
MaxFullShuffle == 5
NumStreams == 2
RandomDen == 1000

GenChars == {"v", "n", "_", "-", "T", "1"}

\* 'll', 'l-l', 'a_b' and '_n' of the test suite
GenTestPatterns ==
    { <<"l", "l">>, <<"l", "-", "l">>, <<"a", "_", "b">>, <<"_", "n">> }

GenPatterns ==
    {p \in Seqs(GenChars, MaxGenLen) : totalCombinations(parsePattern(p)) <= MaxCombos}
        \cup GenTestPatterns

\* the value Math.random() returns at step i of stream sd, times RandomDen
RandomNumerator(sd, i) == (sd * 619 + i * 7919) % RandomDen

\* the values Math.floor(Math.random() * (i + 1)) can take
RandomIndex(i) ==
    IF Len(indices) <= MaxFullShuffle THEN 0..i
    ELSE {(RandomNumerator(seed, i) * (i + 1)) \div RandomDen}

Streams(total) == IF total <= MaxFullShuffle THEN {0} ELSE 1..NumStreams

InitGen ==
    /\ GenIdle
    /\ EntryIdle
    /\ BitmapIdle
    /\ DriverIdle

\* generateCombinations(parsePattern(p)) up to the call of shuffleArray
GenStart(p, sd) ==
    /\ pc = "idle"
    /\ pattern' = p
    /\ parts' = parsePattern(p)
    /\ indices' = ArrayFromLength(totalCombinations(parts'))
    /\ shuffleI' = Len(indices') - 1
    /\ seed' = sd
    /\ pc' = "shuffle"
    /\ UNCHANGED <<cursor, emitted, emittedFrom, extensions, outcome, bitmapVars, driverVars>>

\* one iteration of the loop of shuffleArray
ShuffleStep ==
    /\ pc = "shuffle"
    /\ shuffleI > 0
    /\ \E j \in RandomIndex(shuffleI) : indices' = Swap(indices, shuffleI, j)
    /\ shuffleI' = shuffleI - 1
    /\ UNCHANGED <<parts, pc, seed, cursor, emitted, emittedFrom, entryVars, bitmapVars, driverVars>>

\* shuffleArray returns
ShuffleReturn ==
    /\ pc = "shuffle"
    /\ shuffleI <= 0
    /\ pc' = "loop"
    /\ UNCHANGED <<parts, indices, shuffleI, seed, cursor, emitted, emittedFrom,
                   entryVars, bitmapVars, driverVars>>

\* next() on the generator: run to the next yield, or to the end
GenNext ==
    /\ pc = "loop"
    /\ LET y == NextYield(parts, indices, cursor + 1)
       IN  /\ cursor' = y.at
           /\ IF y.done
              THEN /\ pc' = "done"
                   /\ UNCHANGED <<emitted, emittedFrom>>
              ELSE /\ pc' = "loop"
                   /\ emitted' = Append(emitted, y.value)
                   /\ emittedFrom' = Append(emittedFrom, indices[y.at])
    /\ UNCHANGED <<parts, indices, shuffleI, seed, entryVars, bitmapVars, driverVars>>

NextGen ==
    \/ \E p \in GenPatterns : \E sd \in Streams(totalCombinations(parsePattern(p))) :
           GenStart(p, sd)
    \/ ShuffleStep
    \/ ShuffleReturn
    \/ GenNext

SpecGen == InitGen /\ [][NextGen]_vars

(***************************************************************************)
(* Properties of the generator.                                            *)
(***************************************************************************)
IsDigitChar(c) == charCode(c) \in 48..57
IsLowerChar(c) == charCode(c) \in 97..122

\* the three domain rules: no leading hyphen or digit, no '--', no trailing hyphen
DomainRules(c) ==
    /\ ~(Len(c) > 0 /\ (c[1] = "-" \/ IsDigitChar(c[1])))
    /\ ~(\E k \in 1..(Len(c) - 1) : c[k] = "-" /\ c[k + 1] = "-")
    /\ ~(Len(c) > 0 /\ c[Len(c)] = "-")

RECURSIVE Weight(_, _)
\* the weight of part j in the mixed-radix index: the product of the sizes before it
Weight(ps, j) ==
    IF j <= 1 THEN 1 ELSE Len(ps[j - 1].possibilities) * Weight(ps, j - 1)

\* the digit of part j in index i, the first part being the least significant
Digit(ps, i, j) == (i \div Weight(ps, j)) % Len(ps[j].possibilities)

RECURSIVE ProductString(_, _, _)
\* the elements that index i selects from the first n parts, concatenated in order
ProductString(ps, i, n) ==
    IF n = 0 THEN <<>>
    ELSE ProductString(ps, i, n - 1) \o ps[n].possibilities[Digit(ps, i, n) + 1]

\* C3: no yielded candidate starts with a hyphen or a digit, holds '--' or
\* ends with a hyphen.
C3_ValidCandidates == \A k \in 1..Len(emitted) : DomainRules(emitted[k])

\* a drained generator of a pattern with a wildcard that skipped some indices
C3_Witness ==
    /\ pc = "done"
    /\ Len(emitted) > 0
    /\ Len(emitted) < Len(indices)
    /\ \E j \in 1..Len(parts) : parts[j].type = "wildcard"
    /\ \E i \in Range(indices) : endsWith(ProductString(parts, i, Len(parts)), "-")

\* C4: the index list is a permutation of 0..combinationCount-1 from the
\* start of the shuffle on, each index is taken at most once, no string is
\* yielded twice and at most combinationCount strings are yielded.
C4_NoRepeats ==
    pc # "idle" =>
        /\ Len(indices) = C9_Product(parts)
        /\ Range(indices) = 0..(C9_Product(parts) - 1)
        /\ Cardinality(Range(emitted)) = Len(emitted)
        /\ Cardinality(Range(emittedFrom)) = Len(emittedFrom)
        /\ Len(emitted) <= C9_Product(parts)
        /\ pc = "done" => cursor = Len(indices)

\* a drained generator whose index list was reordered and yielded every index
C4_Witness ==
    /\ pc = "done"
    /\ Len(indices) > 1
    /\ indices # ArrayFromLength(Len(indices))
    /\ Len(emitted) = Len(indices)

\* C5: a drained generator has yielded exactly the strings of the Cartesian
\* product that satisfy the three domain rules; when all of them do, it has
\* yielded combinationCount strings.
C5_Complete ==
    pc = "done" =>
        LET product == {ProductString(parts, i, Len(parts)) : i \in 0..(Len(indices) - 1)}
        IN  /\ Range(emitted) = {c \in product : DomainRules(c)}
            /\ (\A c \in product : DomainRules(c)) => Len(emitted) = Len(indices)

\* what the pattern character p allows at its position of a candidate
C6_Matches(p, c) ==
    CASE p \in {"l", "L"} -> IsLowerChar(c)
      [] p \in {"c", "C"} -> IsLowerChar(c) /\ c \notin {"a", "e", "i", "o", "u", "y"}
      [] p \in {"v", "V"} -> c \in {"a", "e", "i", "o", "u"}
      [] p \in {"n", "N"} -> IsDigitChar(c)
      [] p = "_" -> IsLowerChar(c) \/ IsDigitChar(c) \/ c = "-"
      [] p = "-" -> c = "-"
      [] OTHER -> c = toLowerCaseChar(p)

\* C6: every yielded candidate is the concatenation, in segment order, of
\* the element that the mixed-radix digits of its index select from each
\* segment's alphabet, the first segment being the least significant; for a
\* valid pattern it has the pattern's length and matches it position by
\* position, a literal character in lower case.
C6_Decode ==
    \A k \in 1..Len(emitted) :
        /\ emitted[k] = ProductString(parts, emittedFrom[k], Len(parts))
        /\ validatePattern(pattern) = Null =>
              /\ Len(emitted[k]) = Len(pattern)
              /\ \A q \in 1..Len(pattern) : C6_Matches(pattern[q], emitted[k][q])

\* 'l-l' drained: 676 candidates, among them one with two different letters
C6_Witness ==
    /\ pc = "done"
    /\ pattern = <<"l", "-", "l">>
    /\ Len(emitted) = 676
    /\ \E k \in 1..Len(emitted) : emittedFrom[k] >= 26 /\ emitted[k][1] # emitted[k][3]

(***************************************************************************)
(* index.ts: the history file.  initBitmap passes the capacity 1_000_000;  *)
(* the model's cache has HistoryCapacity bits, few enough for two of the   *)
(* model's domains to share a bit.                                         *)
(***************************************************************************)
HistoryCapacity == 12

initBitmap == NewBitmap(HistoryCapacity)

ErrorReadingHistory == <<"Error reading history file, starting fresh">>

\* a loadHistory that never reads the file
loadHistoryFresh(file) == [checkedDomains |-> initBitmap, errors |-> <<>>]

\* loadHistory(): the Bitmap it assigns to checkedDomains and the lines it
\* passes to console.error
loadHistory(file) ==
    IF file # <<>>
    THEN LET result == deserialize(file[1])
         IN  IF "thrown" \in DOMAIN result
             THEN [checkedDomains |-> initBitmap, errors |-> <<ErrorReadingHistory>>]
             ELSE [checkedDomains |-> result, errors |-> <<>>]
    ELSE [checkedDomains |-> initBitmap, errors |-> <<>>]

DEFAULT_PARALLEL == 2

\* base + ext
Domain(b, ext) == b \o ext

\* the domains of the model's runs
ModelDomains ==
    {Domain(<<b>>, ext) : b \in {"t", "a", "e", "i", "o", "u"}, ext \in {DotCom, DotNet}}

\* a history file as an earlier run saved it with the given domains recorded
RECURSIVE AddAll(_, _)
AddAll(b, domains) ==
    IF domains = {} THEN b
    ELSE LET d == CHOOSE x \in domains : TRUE
         IN  AddAll(add(b, d), domains \ {d})

\* what can be found in place of a saved file: the file whole, the file cut
\* short after k characters, the file with a capacity of zero, and the file
\* without its size member
Damages(text) ==
    [kind : {"whole", "zero size", "no size"}, at : {0}]
        \cup [kind : {"cut"}, at : 0..(Len(text) - 1)]

FoundText(b, damage) ==
    CASE damage.kind = "whole" -> serialize(b)
      [] damage.kind = "cut" -> SubSeq(serialize(b), 1, damage.at)
      [] damage.kind = "zero size" -> serialize([b EXCEPT !.size = 0])
      [] damage.kind = "no size" ->
            <<"{">> \o Tail(BitsKey) \o JoinNumbers(b.bits, 1) \o <<"]", "}">>

\* the variables of a program that has not started, with the history file
\* and the --parallel value given
DriverStart(file, recorded, par) ==
    /\ historyFile = file
    /\ parallel = par
    /\ availableFile = <<>>
    /\ checkedDomains = NewBitmap(0)
    /\ reported = <<>>
    /\ run = 1
    /\ MainIdle
    /\ probed = {}
    /\ loaded = {}
    /\ addedDomains = recorded
    /\ savedDomains = recorded
    /\ lastResult = <<>>

\* the program starts beside a history file that holds one recorded domain
\* or none, whole or damaged, or beside no history file
InitLoad ==
    /\ \/ DriverStart(<<>>, {}, DEFAULT_PARALLEL)
       \/ \E recorded \in {{}} \cup {{d} : d \in ModelDomains} :
             LET b == AddAll(initBitmap, recorded)
             IN  \E damage \in Damages(serialize(b)) :
                    DriverStart(<<FoundText(b, damage)>>,
                                IF damage.kind = "whole" THEN recorded ELSE {},
                                DEFAULT_PARALLEL)
    /\ BitmapIdle
    /\ EntryIdle
    /\ GenIdle

\* main(): loadHistory()
LoadHistory ==
    /\ mainPc = "start"
    /\ LET l == loadHistory(historyFile)
       IN  /\ checkedDomains' = l.checkedDomains
           /\ reported' = reported \o l.errors
           /\ loaded' = IF historyFile # <<>> /\ l.errors = <<>> THEN savedDomains ELSE {}
    /\ mainPc' = "loaded"
    /\ UNCHANGED <<fileVars, run, parallel, analyses, analysisIdx, bases, base, extIdx,
                   domainToCheck, checkPromises, started, globalCount, availableCount,
                   skippedCount, probed, addedDomains, savedDomains, lastResult,
                   bitmapVars, entryVars, genVars>>

NextLoad == LoadHistory

SpecLoad == InitLoad /\ [][NextLoad]_vars

\* the text holds no JSON, or no capacity, or a capacity that is not positive
C12_Corrupt(text) ==
    LET parsed == JSONparse(text)
    IN  ~parsed.ok \/ ~parsed.hasSize \/ parsed.size <= 0

\* C12: for a history text that cannot be parsed, or whose capacity is missing
\* or not positive, Bitmap.deserialize throws and returns no Bitmap, and
\* loadHistory reports the error and goes on with a fresh, empty cache.
C12_CorruptRejected ==
    (mainPc = "loaded" /\ historyFile # <<>> /\ C12_Corrupt(historyFile[1])) =>
        /\ deserialize(historyFile[1]) = Thrown
        /\ reported = <<ErrorReadingHistory>>
        /\ checkedDomains = initBitmap

(***************************************************************************)
(* index.ts: main().  The coroutine runs from one await to the next without*)
(* interruption; a whois result, a timer and SIGINT are handled only while *)
(* main awaits.  The strings generateCombinations yields arrive in any     *)
(* order, the shuffle being an input.                                      *)
(***************************************************************************)
MaxParallel == 2
MaxRuns == 2

\* parseArgs: Math.max(1, parseInt(...) || DEFAULT_PARALLEL)
ParallelValues == 1..MaxParallel

EntryT == [pattern |-> <<"T">>, extensions |-> <<DotCom, DotNet>>]
EntryV == [pattern |-> <<"v">>, extensions |-> <<DotCom>>]
EntryHyphen == [pattern |-> <<"-", "T">>, extensions |-> <<DotCom>>]

EntryA == [pattern |-> <<"a">>, extensions |-> <<DotCom>>]

\* patternsToCheck, from --pattern or from a patterns file
PatternLists == {<<EntryT>>, <<EntryV>>, <<EntryA, EntryT>>, <<EntryHyphen>>}

\* the shorter lists: patternsToCheck of the runs followed to their end and
\* of the runs that resume one another
ShortLists == {<<EntryT>>, <<EntryA, EntryT>>, <<EntryHyphen>>}

\* writeFileSync(HISTORY_FILE, checkedDomains.serialize())
saveHistory(b) == <<serialize(b)>>

RECURSIVE ShuffleFrom(_, _, _)
\* the loop of shuffleArray from i down, Math.random() drawing from stream sd
ShuffleFrom(array, i, sd) ==
    IF i <= 0 THEN array
    ELSE ShuffleFrom(Swap(array, i, (RandomNumerator(sd, i) * (i + 1)) \div RandomDen),
                     i - 1, sd)

RECURSIVE Drain(_, _, _)
\* the strings the for-of loop yields from the k-th index on, in order
Drain(ps, array, k) ==
    LET y == NextYield(ps, array, k)
    IN  IF y.done THEN <<>> ELSE <<y.value>> \o Drain(ps, array, y.at + 1)

\* the strings generateCombinations(ps) yields, in order
Yields(ps, sd) ==
    LET total == totalCombinations(ps)
    IN  Drain(ps, ShuffleFrom(ArrayFromLength(total), total - 1, sd), 1)

\* a promise body that records the domain whatever the probe returned
RecordedAlways(cache, domain, checkResult) == add(cache, domain)

\* if (checkResult.success) checkedDomains.add(domainToCheck)
Recorded(cache, domain, checkResult) ==
    IF checkResult.success THEN add(cache, domain) ELSE cache

\* a wait condition that lets one probe more through
MustWaitBeyond(size, par) == size > par

\* while (checkPromises.size >= parallel)
MustWait(size, par) == size >= par

\* a finally block that leaves the promise in the set
SettledKeeps(promises, p) == promises

\* finally: checkPromises.delete(checkPromise); resolve()
Settled(promises, p) == promises \ {p}

\* main stands at an await that has not been fulfilled
MainAwaits ==
    \/ mainPc = "wait" /\ MustWait(Cardinality(checkPromises), parallel)
    \/ mainPc = "drain" /\ checkPromises # {}

\* what checkDomain resolves with
Endings == {"timeout", "exit code", "registered", "available"}

checkDomain(ending) ==
    CASE ending = "timeout" -> [available |-> FALSE, success |-> FALSE]
      [] ending = "exit code" -> [available |-> FALSE, success |-> FALSE]
      [] ending = "registered" -> [available |-> FALSE, success |-> TRUE]
      [] ending = "available" -> [available |-> TRUE, success |-> TRUE]

\* the first entry analyzePattern rejects, 0 when there is none
FirstInvalid(results) ==
    IF \A k \in 1..Len(results) : results[k].typeof = "object" THEN 0
    ELSE CHOOSE k \in 1..Len(results) :
            /\ results[k].typeof = "string"
            /\ \A j \in 1..(k - 1) : results[j].typeof = "object"

InitDriver ==
    /\ \E par \in ParallelValues :
          \/ DriverStart(<<>>, {}, par)
          \/ DriverStart(<<SubSeq(serialize(initBitmap), 1, Len(SizeKey))>>, {}, par)
    /\ BitmapIdle
    /\ EntryIdle
    /\ GenIdle

libVars == <<bitmapVars, entryVars, genVars>>

\* main(): the entries are analysed; an invalid one ends the program
AnalyzeEntries(patternsToCheck) ==
    /\ mainPc = "loaded"
    /\ LET results == [k \in 1..Len(patternsToCheck) |-> analyzePattern(patternsToCheck[k])]
           bad == FirstInvalid(results)
       IN  IF bad # 0
           THEN /\ reported' = Append(reported, <<"Invalid pattern", results[bad].value>>)
                /\ mainPc' = "rejected"
                /\ UNCHANGED <<analyses, analysisIdx>>
           ELSE /\ analyses' = results
                /\ analysisIdx' = 1
                /\ mainPc' = "pattern"
                /\ UNCHANGED reported
    /\ UNCHANGED <<fileVars, checkedDomains, run, parallel, bases, base, extIdx,
                   domainToCheck, checkPromises, started, globalCount, availableCount,
                   skippedCount, historyVars, libVars>>

\* for (const analysis of analyses): the counters, the promise set and the
\* generator of one pattern
BeginPattern(sd) ==
    /\ mainPc = "pattern"
    /\ analysisIdx <= Len(analyses)
    /\ globalCount' = 0
    /\ availableCount' = 0
    /\ skippedCount' = 0
    /\ checkPromises' = {}
    /\ bases' = Yields(analyses[analysisIdx].parts, sd)
    /\ mainPc' = "bases"
    /\ UNCHANGED <<fileVars, checkedDomains, reported, run, parallel, analyses,
                   analysisIdx, base, extIdx, domainToCheck, started, historyVars,
                   libVars>>

\* for (const base of generateCombinations(analysis.parts))
NextBase ==
    /\ mainPc = "bases"
    /\ IF bases = <<>>
       THEN /\ mainPc' = "drain"
            /\ UNCHANGED <<bases, base, extIdx>>
       ELSE /\ bases' = Tail(bases)
            /\ IF startsWith(Head(bases), "-") \/ endsWith(Head(bases), "-")
               THEN UNCHANGED <<mainPc, base, extIdx>>
               ELSE /\ base' = Head(bases)
                    /\ extIdx' = 1
                    /\ mainPc' = "exts"
    /\ UNCHANGED <<fileVars, checkedDomains, reported, run, parallel, analyses,
                   analysisIdx, domainToCheck, checkPromises, started, globalCount,
                   availableCount, skippedCount, historyVars, libVars>>

\* for (const ext of analysis.extensions): the cache is consulted
NextExt ==
    /\ mainPc = "exts"
    /\ LET exts == analyses[analysisIdx].extensions
       IN  IF extIdx > Len(exts)
           THEN /\ mainPc' = "bases"
                /\ UNCHANGED <<extIdx, skippedCount, globalCount, domainToCheck>>
           ELSE LET domain == Domain(base, exts[extIdx])
                IN  IF test(checkedDomains, domain)
                    THEN /\ skippedCount' = skippedCount + 1
                         /\ extIdx' = extIdx + 1
                         /\ UNCHANGED <<mainPc, globalCount, domainToCheck>>
                    ELSE /\ globalCount' = globalCount + 1
                         /\ domainToCheck' = domain
                         /\ mainPc' = "wait"
                         /\ UNCHANGED <<extIdx, skippedCount>>
    /\ UNCHANGED <<fileVars, checkedDomains, reported, run, parallel, analyses,
                   analysisIdx, bases, base, checkPromises, started, availableCount,
                   historyVars, libVars>>

\* the wait is over: new Promise(...) calls checkDomain(domainToCheck), and
\* the promise joins checkPromises
StartProbe ==
    /\ mainPc = "wait"
    /\ ~MustWait(Cardinality(checkPromises), parallel)
    /\ started' = started + 1
    /\ checkPromises' = checkPromises \cup
            {[id |-> started + 1, domain |-> domainToCheck, stage |-> "checkDomain"]}
    /\ probed' = probed \cup {domainToCheck}
    /\ domainToCheck' = <<>>
    /\ extIdx' = extIdx + 1
    /\ mainPc' = "exts"
    /\ UNCHANGED <<fileVars, checkedDomains, reported, run, parallel, analyses,
                   analysisIdx, bases, base, globalCount, availableCount, skippedCount,
                   loaded, addedDomains, savedDomains, lastResult, libVars>>

\* checkDomain resolves and the promise body runs on: add, saveAvailable,
\* the save on every fifth count, then delay(delayMs), which either returns
\* at once (finally: the promise leaves checkPromises) or sets a timer
ProbeResolves(p, ending, elapsed) ==
    /\ MainAwaits
    /\ p \in checkPromises
    /\ p.stage = "checkDomain"
    /\ LET checkResult == checkDomain(ending)
           cache == Recorded(checkedDomains, p.domain, checkResult)
           saves == checkResult.success /\ globalCount % 5 = 0
       IN  /\ checkedDomains' = cache
           /\ addedDomains' = IF checkResult.success THEN addedDomains \cup {p.domain}
                              ELSE addedDomains
           /\ availableCount' = IF checkResult.available THEN availableCount + 1
                                ELSE availableCount
           /\ availableFile' = IF checkResult.success /\ checkResult.available
                               THEN Append(availableFile, p.domain)
                               ELSE availableFile
           /\ historyFile' = IF saves THEN saveHistory(cache) ELSE historyFile
           /\ savedDomains' = IF saves THEN addedDomains' ELSE savedDomains
           /\ globalCount' = IF checkResult.success THEN globalCount ELSE globalCount - 1
           /\ lastResult' =
                  <<[id |-> p.id, domain |-> p.domain, success |-> checkResult.success,
                     available |-> checkResult.available]>>
    /\ checkPromises' =
          IF elapsed THEN Settled(checkPromises, p)
          ELSE (checkPromises \ {p}) \cup {[p EXCEPT !.stage = "delay"]}
    /\ UNCHANGED <<reported, mainPc, run, parallel, analyses, analysisIdx, bases, base,
                   extIdx, domainToCheck, started, skippedCount, probed, loaded, libVars>>

\* the timer of delay fires; finally: checkPromises.delete(checkPromise); resolve()
DelayExpires(p) ==
    /\ MainAwaits
    /\ p \in checkPromises
    /\ p.stage = "delay"
    /\ checkPromises' = Settled(checkPromises, p)
    /\ UNCHANGED <<fileVars, checkedDomains, reported, mainPc, run, parallel, analyses,
                   analysisIdx, bases, base, extIdx, domainToCheck, started, globalCount,
                   availableCount, skippedCount, historyVars, libVars>>

\* Promise.all is fulfilled (or was not needed); saveHistory() after the pattern
EndPattern ==
    /\ mainPc = "drain"
    /\ checkPromises = {}
    /\ historyFile' = saveHistory(checkedDomains)
    /\ savedDomains' = addedDomains
    /\ analysisIdx' = analysisIdx + 1
    /\ mainPc' = "pattern"
    /\ UNCHANGED <<availableFile, checkedDomains, reported, run, parallel, analyses,
                   bases, base, extIdx, domainToCheck, checkPromises, started,
                   globalCount, availableCount, skippedCount, probed, loaded,
                   addedDomains, lastResult, libVars>>

\* after the last pattern: the final saveHistory()
Finish ==
    /\ mainPc = "pattern"
    /\ analysisIdx > Len(analyses)
    /\ historyFile' = saveHistory(checkedDomains)
    /\ savedDomains' = addedDomains
    /\ mainPc' = "finished"
    /\ UNCHANGED <<availableFile, checkedDomains, reported, run, parallel, analyses,
                   analysisIdx, bases, base, extIdx, domainToCheck, checkPromises,
                   started, globalCount, availableCount, skippedCount, probed, loaded,
                   addedDomains, lastResult, libVars>>

\* process.on('SIGINT'): saveHistory(); process.exit()
Sigint ==
    /\ MainAwaits
    /\ historyFile' = saveHistory(checkedDomains)
    /\ savedDomains' = addedDomains
    /\ mainPc' = "exited"
    /\ UNCHANGED <<availableFile, checkedDomains, reported, run, parallel, analyses,
                   analysisIdx, bases, base, extIdx, domainToCheck, checkPromises,
                   started, globalCount, availableCount, skippedCount, probed, loaded,
                   addedDomains, lastResult, libVars>>

\* the program is started again: the files stay, the memory of the process
\* that ended is gone
NextRun(par) ==
    /\ mainPc \in {"finished", "exited", "rejected"}
    /\ run < MaxRuns
    /\ run' = run + 1
    /\ parallel' = par
    /\ checkedDomains' = NewBitmap(0)
    /\ reported' = <<>>
    /\ mainPc' = "start"
    /\ analyses' = <<>>
    /\ analysisIdx' = 0
    /\ bases' = <<>>
    /\ base' = <<>>
    /\ extIdx' = 0
    /\ domainToCheck' = <<>>
    /\ checkPromises' = {}
    /\ started' = 0
    /\ globalCount' = 0
    /\ availableCount' = 0
    /\ skippedCount' = 0
    /\ probed' = {}
    /\ loaded' = {}
    /\ addedDomains' = savedDomains
    /\ lastResult' = <<>>
    /\ UNCHANGED <<fileVars, savedDomains, libVars>>

MainStep(lists) ==
    \/ LoadHistory
    \/ \E patternsToCheck \in lists : AnalyzeEntries(patternsToCheck)
    \/ \E sd \in 1..NumStreams : BeginPattern(sd)
    \/ NextBase
    \/ NextExt
    \/ StartProbe
    \/ EndPattern
    \/ Finish

ProbeStep == \E p \in checkPromises, ending \in Endings, elapsed \in BOOLEAN :
                ProbeResolves(p, ending, elapsed)

TimerStep == \E p \in checkPromises : DelayExpires(p)

\* one run of the program
NextDriver ==
    \/ MainStep(PatternLists)
    \/ ProbeStep
    \/ TimerStep
    \/ Sigint

SpecDriver == InitDriver /\ [][NextDriver]_vars

\* one run over a short list
NextShort ==
    \/ MainStep(ShortLists)
    \/ ProbeStep
    \/ TimerStep
    \/ Sigint

\* main runs on when it can, every probe resolves and every timer fires
SpecDriverFair ==
    /\ InitDriver
    /\ [][NextShort]_vars
    /\ WF_vars(MainStep(ShortLists))
    /\ WF_vars(ProbeStep)
    /\ WF_vars(TimerStep)

\* the program run again and again on the files it left
NextResume ==
    \/ MainStep(ShortLists)
    \/ ProbeStep
    \/ TimerStep
    \/ Sigint
    \/ \E par \in ParallelValues : NextRun(par)

SpecResume == InitDriver /\ [][NextResume]_vars

(***************************************************************************)
(* Properties of the driver.                                               *)
(***************************************************************************)
\* the probes that checkDomain has started and not yet resolved
C13_InFlight == {p \in checkPromises : p.stage = "checkDomain"}

\* C13: whatever the order in which probes resolve, the number of checkDomain
\* calls started and not yet resolved never exceeds the --parallel value,
\* which is at least 1.
C13_BoundedConcurrency ==
    /\ parallel >= 1
    /\ Cardinality(C13_InFlight) <= parallel

\* main waits for a slot while two probes are in flight and more bases are to come
C13_Witness ==
    /\ mainPc = "wait"
    /\ parallel = 2
    /\ Cardinality(C13_InFlight) = 2
    /\ bases # <<>>
    /\ lastResult # <<>>

\* C14: main starts a probe only for the domain it has just consulted the
\* cache about, and only when checkedDomains.test answered false; and a run
\* that loaded the history file never probes a domain whose successful probe
\* an earlier run had recorded before it last saved that file.
C14_Resumable ==
    /\ [](probed \cap loaded = {})
    /\ [][/\ (mainPc = "exts" /\ mainPc' = "wait") =>
                ~test(checkedDomains, domainToCheck')
          /\ (probed' # probed /\ mainPc' # "start") =>
                (mainPc = "wait" /\ probed' = probed \cup {domainToCheck})]_vars

\* a second run has loaded a file with a recorded domain, has skipped a
\* domain and has probed another
C14_Witness ==
    /\ run = 2
    /\ loaded # {}
    /\ skippedCount > 0
    /\ probed # {}
    /\ \E d \in loaded : test(checkedDomains, d)

\* this step is the return of a checkDomain call
C15_Resolves == lastResult' # lastResult /\ lastResult' # <<>>

\* C15: the cache changes in the probe loop only by add(domain) for a domain
\* whose probe has just returned success; a probe that fails (timeout or
\* exit code) leaves the cache, the history file and the answer of test for
\* its domain as they were; and a domain is appended to the available file
\* only when its probe has just returned success and available.
C15_RecordsOnlySuccess ==
    [][/\ (checkedDomains' # checkedDomains /\ mainPc # "start") =>
             /\ C15_Resolves
             /\ lastResult'[1].success
             /\ checkedDomains' = add(checkedDomains, lastResult'[1].domain)
       /\ (C15_Resolves /\ ~lastResult'[1].success) =>
             /\ UNCHANGED <<checkedDomains, historyFile, availableFile, addedDomains>>
             /\ ~lastResult'[1].available
       /\ availableFile' # availableFile =>
             /\ C15_Resolves
             /\ lastResult'[1].success
             /\ lastResult'[1].available
             /\ availableFile' = Append(availableFile, lastResult'[1].domain)]_vars

\* a probe has failed and its domain still tests false, while another domain
\* was found available and recorded
C15_Witness ==
    /\ lastResult # <<>>
    /\ ~lastResult[1].success
    /\ ~test(checkedDomains, lastResult[1].domain)
    /\ availableFile # <<>>
    /\ \E d \in addedDomains : test(checkedDomains, d)

\* main has just called saveHistory(): after a pattern, at the end, on SIGINT
C16_JustSaved ==
    \/ mainPc \in {"finished", "exited"}
    \/ mainPc = "pattern" /\ analysisIdx > 1

\* C16: when every probe resolves and every timer fires, a run that has
\* started ends (finished, interrupted by SIGINT, or rejected for an invalid
\* pattern); it finishes with no check promise outstanding; and the history
\* file written after a pattern, at the end of the run and on SIGINT is the
\* serialization of checkedDomains, in which every domain added tests true.
C16_TerminatesAndPersists ==
    /\ (mainPc = "start") ~> (mainPc \in {"finished", "exited", "rejected"})
    /\ [](mainPc = "finished" => checkPromises = {})
    /\ [](C16_JustSaved =>
            /\ historyFile = <<serialize(checkedDomains)>>
            /\ \A d \in addedDomains : test(deserialize(historyFile[1]), d))

\* a run over two patterns has finished, after main had to wait for a slot,
\* with a domain recorded in the saved history
C16_Witness ==
    /\ mainPc = "finished"
    /\ Len(analyses) = 2
    /\ started > parallel
    /\ addedDomains # {}
    /\ checkPromises = {}
    /\ historyFile = <<serialize(checkedDomains)>>

====
